---- MODULE Spec2Model ----
(***************************************************************************)
(* Model of strapi-fragments-cli (src/index.js): a command line tool that  *)
(* fetches a Strapi component schema, resolves nested components           *)
(* recursively into GraphQL selections, and writes a fragment file, a Vue  *)
(* component stub, a types file and an export line in a barrel file.       *)
(*                                                                         *)
(* A JavaScript string is a sequence of tokens (TLA+ strings).  Component  *)
(* identifiers and the names derived from them are sequences of single     *)
(* characters, so that split / charAt / toUpperCase act on characters.     *)
(***************************************************************************)
EXTENDS Naturals, Sequences, FiniteSets, TLC

----------------------------------------------------------------------------
(* Bounds of the model *)

\* number of invocations of the tool in one behaviour
MaxRuns == 2
\* number of times the CMS schema is edited in one behaviour
MaxEdits == 1
\* longest hyphen-separated name in the identifiers given to processString
MaxSegs == 2
\* longest segment of such an identifier
MaxWord == 2

----------------------------------------------------------------------------
(* Strings *)

\* A recursive operator binds its arguments once, as the values of bound
\* variables (CHOOSE ... {body : x \in {argument}}), as a JavaScript call
\* evaluates its arguments once.

RECURSIVE Concat(_)
\* concatenation of a sequence of strings
Concat(strings) ==
    CHOOSE out \in
        {IF ss = <<>> THEN <<>> ELSE Head(ss) \o Concat(Tail(ss)) :
            ss \in {strings}} : TRUE

RECURSIVE join(_, _)
\* Array.prototype.join
join(strings, separator) ==
    CHOOSE out \in
        {IF ss = <<>> THEN <<>>
         ELSE IF Len(ss) = 1 THEN ss[1]
         ELSE ss[1] \o sep \o join(Tail(ss), sep) :
            ss \in {strings}, sep \in {separator}} : TRUE

\* String.prototype.includes
includes(content, piece) ==
    \E i \in 0..Len(content) :
        /\ i + Len(piece) <= Len(content)
        /\ \A j \in 1..Len(piece) : content[i + j] = piece[j]

\* content starts with piece
IsPrefix(piece, content) ==
    /\ Len(piece) <= Len(content)
    /\ \A j \in 1..Len(piece) : content[j] = piece[j]

\* number of occurrences of piece in content
Occurrences(content, piece) ==
    Cardinality({i \in 0..Len(content) :
        /\ i + Len(piece) <= Len(content)
        /\ \A j \in 1..Len(piece) : content[i + j] = piece[j]})

LowerLetters == <<"a", "b", "c", "n", "s">>
UpperLetters == <<"A", "B", "C", "N", "S">>

\* String.prototype.toUpperCase on one character
toUpperCase(c) ==
    IF \E i \in 1..Len(LowerLetters) : LowerLetters[i] = c
    THEN UpperLetters[CHOOSE i \in 1..Len(LowerLetters) : LowerLetters[i] = c]
    ELSE c

\* String.prototype.toLowerCase on one character
toLowerCase(c) ==
    IF \E i \in 1..Len(UpperLetters) : UpperLetters[i] = c
    THEN LowerLetters[CHOOSE i \in 1..Len(UpperLetters) : UpperLetters[i] = c]
    ELSE c

RECURSIVE split(_, _)
\* String.prototype.split on a set of one-character separators: the pieces
\* between separators, empty pieces included ("" splits into [""])
split(string, seps) ==
    CHOOSE out \in
        {IF \A i \in 1..Len(str) : str[i] \notin seps THEN <<str>>
         ELSE \* k: the first separator
              <<SubSeq(str, 1, k - 1)>> \o split(SubSeq(str, k + 1, Len(str)), seps) :
            str \in {string},
            k \in {i \in 1..(Len(string) + 1) :
                      /\ i <= Len(string) => string[i] \in seps
                      /\ \A j \in 1..(i - 1) : string[j] \notin seps}} : TRUE

\* every character of the segment in upper case
UpperAll(segment) ==
    [i \in 1..Len(segment) |-> toUpperCase(segment[i])]

\* segment.charAt(0).toUpperCase() + segment.slice(1)
Capitalize(segment) ==
    IF segment = <<>> THEN <<>>
    ELSE <<toUpperCase(segment[1])>> \o Tail(segment)

\* name.charAt(0).toLowerCase() + name.slice(1)
lowerFirst(name) ==
    IF name = <<>> THEN <<>>
    ELSE <<toLowerCase(name[1])>> \o Tail(name)

\* str.split('.')[1].split('-')
nameSegments(str) ==
    split(split(str, {"."})[2], {"-"})

\* processString: the name and the collection of a component identifier;
\* str.split('.')[1] is undefined when str has no dot, and .split throws
processString(str) ==
    IF Len(split(str, {"."})) < 2
    THEN [threw |-> TRUE, name |-> <<>>, collection |-> <<>>]
    ELSE LET capitalizedSegments ==
                 [i \in 1..Len(split(str, {"-", "."})) |->
                     Capitalize(split(str, {"-", "."})[i])]
             names ==
                 [i \in 1..Len(nameSegments(str)) |->
                     Capitalize(nameSegments(str)[i])]
         IN  [threw |-> FALSE,
              name |-> join(names, <<>>),
              collection |-> <<"C","o","m","p","o","n","e","n","t">>
                                 \o join(capitalizedSegments, <<>>)]

----------------------------------------------------------------------------
(* The CMS: component identifiers and their attribute schemas *)

IdPage == <<"n", "s", ".", "a", "-", "b">>
IdCard == <<"n", "s", ".", "b">>
IdItem == <<"n", "s", ".", "n">>
IdLeaf == <<"n", "s", ".", "c">>
IdBare == <<"c">>

\* the values of -i / --component given to the tool
CompArgs == {IdPage, IdLeaf, IdBare}

\* the values given to two invocations that run at the same time
RaceArgs == {IdLeaf, IdBare}

Scalar(field) == [field |-> field, type |-> "string", component |-> <<>>]
Media(field) == [field |-> field, type |-> "media", component |-> <<>>]
Component(field, id) == [field |-> field, type |-> "component", component |-> id]

\* the identifiers the server answers with a schema (it is free to answer
\* one that has no dot)
Known == {IdPage, IdCard, IdItem, IdLeaf, IdBare}

\* response.data.data.schema.attributes of GET .../components/<id>, the keys
\* in insertion order; version v2 adds a field to the innermost component
Schema(ver, id) ==
    CASE id = IdPage -> <<Scalar("title"), Media("image"),
                          Component("hero", IdCard), Component("aside", IdLeaf)>>
      [] id = IdCard -> <<Scalar("text"), Component("inner", IdItem)>>
      [] id = IdItem -> <<Media("icon"), Component("deep", IdLeaf)>>
      [] id = IdLeaf -> IF ver = "v1" THEN <<Scalar("label")>>
                        ELSE <<Scalar("label"), Scalar("extra")>>
      [] OTHER -> <<Scalar("label")>>

----------------------------------------------------------------------------
(* Results of the asynchronous resolution *)

List(val) == [kind |-> "list", val |-> val]
Null == [kind |-> "null", val |-> <<>>]
Throw == [kind |-> "throw", val |-> <<>>]
Pending == [kind |-> "pending", val |-> <<>>]

\* case 'media' of parseFields
MediaSelection(field) ==
    <<field, " {\n      data {\n        attributes {\n          url\n        }\n      }\n    }">>

\* a component field selected without its nested fields
ComponentSelectionShallow(field, componentFields) ==
    IF componentFields.kind = "list" THEN List(<<field>>) ELSE Throw

\* the block of a component field whose nested list is null: an empty block
ComponentSelectionLenient(field, componentFields) ==
    IF componentFields.kind = "throw" THEN Throw
    ELSE List(<<field, " {\n      ">>
              \o join(componentFields.val, <<"\n      ">>) \o <<"\n    }">>)

\* case 'component' of parseFields, after the await: a rejected fetch
\* rethrows, and componentFields.join throws a TypeError on null
ComponentSelection(field, componentFields) ==
    IF componentFields.kind = "list"
    THEN List(<<field, " {\n      ">>
              \o join(componentFields.val, <<"\n      ">>) \o <<"\n    }">>)
    ELSE Throw

\* the results pushed in the order they complete
StoreSlotInCompletionOrder(slots, i, sel) ==
    LET first == CHOOSE j \in 1..Len(slots) :
                     /\ ~slots[j].done
                     /\ \A h \in 1..(j - 1) : slots[h].done
    IN  [slots EXCEPT ![first] = [done |-> TRUE, val |-> sel]]

\* Promise.all keeps the result of the i-th promise at index i
StoreSlot(slots, i, sel) ==
    [slots EXCEPT ![i] = [done |-> TRUE, val |-> sel]]

\* the field promises of parseFields right after the map: scalar and media
\* fields are resolved, component fields await their fetch
InitialSlots(attributes) ==
    [i \in 1..Len(attributes) |->
        CASE attributes[i].type = "media" ->
                 [done |-> TRUE, val |-> MediaSelection(attributes[i].field)]
          [] attributes[i].type = "component" ->
                 [done |-> FALSE, val |-> <<>>]
          [] OTHER ->
                 [done |-> TRUE, val |-> <<attributes[i].field>>]]

AllDone(slots) == \A i \in 1..Len(slots) : slots[i].done

\* the value Promise.all(fieldPromises) resolves with
PromiseAll(slots) == List([i \in 1..Len(slots) |-> slots[i].val])

Front(path) == SubSeq(path, 1, Len(path) - 1)
Last(path) == path[Len(path)]

\* the requests parseFields issues for the component fields of a task
Children(path, attributes) ==
    {path \o <<i>> : i \in {j \in 1..Len(attributes) : attributes[j].type = "component"}}

\* a request in flight: axios.get of fetchComponentFields
Fetching(id) == [st |-> "fetching", comp |-> id, attrs |-> <<>>, slots |-> <<>>]

RECURSIVE Settle(_, _, _)
\* The microtasks that follow the settling of the task at path with result
\* r, on the record [tasks, root]: the mapper of the parent continues, fills
\* its slot or throws, and the parent's Promise.all settles in turn.  A task
\* whose parent has already rejected has no one to report to.
Settle(state, path, result) ==
    CHOOSE out \in
        {IF path = <<>> THEN [s EXCEPT !.root = r]
         ELSE LET parent == Front(path)
                  i == Last(path)
              IN  IF parent \notin DOMAIN s.tasks THEN s
                  ELSE LET t == s.tasks[parent]
                           sel == ComponentSelection(t.attrs[i].field, r)
                           rest == [q \in (DOMAIN s.tasks) \ {parent} |-> s.tasks[q]]
                       IN  IF sel.kind = "throw"
                           THEN Settle([s EXCEPT !.tasks = rest], parent, Throw)
                           ELSE LET slots == StoreSlot(t.slots, i, sel.val)
                                IN  IF AllDone(slots)
                                    THEN Settle([s EXCEPT !.tasks = rest], parent,
                                                PromiseAll(slots))
                                    ELSE [s EXCEPT !.tasks[parent].slots = slots] :
            s \in {state}, r \in {result}} : TRUE

\* fetchComponentFields when the response arrives: parseFields maps the
\* fields, issuing the nested requests; with no component field the result
\* is ready at once
Respond(s, path, attributes) ==
    LET rest == [q \in (DOMAIN s.tasks) \ {path} |-> s.tasks[q]]
        kids == Children(path, attributes)
        slots == InitialSlots(attributes)
    IN  IF kids = {}
        THEN Settle([s EXCEPT !.tasks = rest], path, PromiseAll(slots))
        ELSE [s EXCEPT !.tasks =
                 [q \in (DOMAIN s.tasks) \cup kids |->
                     IF q = path
                     THEN [st |-> "parsing", comp |-> s.tasks[path].comp,
                           attrs |-> attributes, slots |-> slots]
                     ELSE IF q \in kids
                     THEN Fetching(attributes[Last(q)].component)
                     ELSE s.tasks[q]]]

\* fetchComponentFields when the request fails: the catch returns null
Fail(s, path) ==
    Settle([s EXCEPT !.tasks = [q \in (DOMAIN s.tasks) \ {path} |-> s.tasks[q]]],
           path, Null)

RECURSIVE Resolved(_, _)
\* the field list of a component when every fetch succeeds: the selection
\* tree that mirrors the nesting of the schema
Resolved(ver, id) ==
    CHOOSE out \in
        {[i \in 1..Len(attributes) |->
            CASE attributes[i].type = "media" ->
                     <<attributes[i].field,
                       " {\n      data {\n        attributes {\n          url\n        }\n      }\n    }">>
              [] attributes[i].type = "component" ->
                     <<attributes[i].field, " {\n      ">>
                     \o join(Resolved(ver, attributes[i].component), <<"\n      ">>)
                     \o <<"\n    }">>
              [] OTHER -> <<attributes[i].field>>] :
            attributes \in {Schema(ver, id)}} : TRUE

RECURSIVE ComponentFieldCount(_, _)
\* component-typed field occurrences in the tree below a component
ComponentFieldCount(ver, id) ==
    CHOOSE out \in
        {LET RECURSIVE Sum(_)
             Sum(i) == IF i > Len(attributes) THEN 0
                       ELSE IF attributes[i].type = "component"
                       THEN 1 + ComponentFieldCount(ver, attributes[i].component)
                              + Sum(i + 1)
                       ELSE Sum(i + 1)
         IN  Sum(1) :
            attributes \in {Schema(ver, id)}} : TRUE

----------------------------------------------------------------------------
(* Paths, templates and the formatter *)

sectionsDir == "components/sections"
sectionsFragmentsDir == "graphql/fragments/sections"
fragmentsDir == "graphql/fragments"

\* fs.mkdirSync(dir, { recursive: true }): the directory and its ancestors
mkdirSync(dirs, dir) ==
    dirs \cup
    (CASE dir = sectionsDir -> {"components", sectionsDir}
       [] dir = sectionsFragmentsDir -> {"graphql", fragmentsDir, sectionsFragmentsDir}
       [] OTHER -> {dir})

fragmentFilePath(name) ==
    [dir |-> sectionsFragmentsDir, file |-> lowerFirst(name) \o <<".ts">>]
componentFilePath(name) ==
    [dir |-> sectionsDir, file |-> name \o <<".vue">>]
componentTypesFilePath(name) ==
    [dir |-> sectionsDir, file |-> lowerFirst(name) \o <<".types.ts">>]
sectionsFragmentsIndexDir ==
    [dir |-> fragmentsDir, file |-> <<"index.ts">>]

\* the tokens of the templates that are white space only
Layout == {"\n", "\n  ", "\n    ", "\n\n    ", "\n      ", "\n        "}

\* a template that renders a null field list as no field at all
FragmentAttributesLenient(attributes) ==
    [threw |-> FALSE, val |-> join(attributes.val, <<"\n    ">>)]

\* attributes.join('\n    ') in the fragment template: a TypeError on null
fragmentAttributes(attributes) ==
    IF attributes.kind = "list"
    THEN [threw |-> FALSE, val |-> join(attributes.val, <<"\n    ">>)]
    ELSE [threw |-> TRUE, val |-> <<>>]

\* the fragment template (~ stands for the backquote of the template literal)
gqlFragment(name, collection, fields) ==
    <<"\n    ", "import { gql } from 'graphql-tag';", "\n\n    ", "export const ">>
    \o name \o <<" = gql~", "\n      ", "fragment ">> \o name \o <<" on ">>
    \o collection \o <<" {", "\n        ">> \o fields
    \o <<"\n      ", "}", "\n  ", "~;">>

componentCode(name) ==
    <<"\n    ", "<template><div>{{ data }}</div></template>", "\n\n    ",
      "<script setup lang=ts>", "\n      ", "import type { ">> \o name
    \o <<" } from './">> \o lowerFirst(name) \o <<".types.ts';", "\n\n      ",
         "defineProps({ data: { type: Object as PropType<">> \o name
    \o <<">, required: true } });", "\n    ", "</script>", "\n  ">>

componentTypesCode(name) ==
    <<"\n    ", "/** ">> \o name \o <<" section types. */", "\n    ",
      "export interface ">> \o name \o <<" {", "\n    ", "}", "\n  ">>

indexCode(name) ==
    <<"export { ">> \o name \o <<" } from './sections/">> \o lowerFirst(name)
    \o <<"';", "\n">>

\* prettier.format: the layout of the input is dropped and the output ends
\* with one newline (the layout prettier prints is not modelled)
formatCode(code, parser) ==
    SelectSeq(code, LAMBDA t : t \notin Layout) \o <<"\n">>

\* the three formatted file bodies and the barrel line, in the order the
\* files are created
Codes(name, collection, fields) ==
    [path |-> <<fragmentFilePath(name), componentFilePath(name),
                componentTypesFilePath(name)>>,
     code |-> <<formatCode(gqlFragment(name, collection, fields), "typescript"),
                formatCode(componentCode(name), "vue"),
                formatCode(componentTypesCode(name), "typescript")>>,
     indexCode |-> indexCode(name)]

NoCodes == [path |-> <<>>, code |-> <<>>, indexCode |-> <<>>]

\* fs.writeFileSync: the file holds the data alone
writeFileSync(files, path, data) ==
    [q \in (DOMAIN files) \cup {path} |-> IF q = path THEN data ELSE files[q]]

\* fs.appendFileSync: the file is created when absent, the data is added at
\* its end otherwise
appendFileSync(files, path, data) ==
    [q \in (DOMAIN files) \cup {path} |->
        IF q # path THEN files[q]
        ELSE IF path \in DOMAIN files THEN files[path] \o data ELSE data]

\* fs.existsSync
existsSync(files, path) == path \in DOMAIN files

\* a creation step that never skips
ShouldCreateAlways(files, path) == TRUE

\* if (!fs.existsSync(path)) of the three file creations
ShouldCreate(files, path) == ~existsSync(files, path)

\* the search for the line left out
IndexHasLineNever(files, line) == FALSE

\* a check for the line at the start of the file only
IndexHasLineAtStart(files, line) ==
    /\ existsSync(files, sectionsFragmentsIndexDir)
    /\ IsPrefix(line, files[sectionsFragmentsIndexDir])

\* isIndexFile && indexFileContent.includes(indexCode)
IndexHasLine(files, line) ==
    /\ existsSync(files, sectionsFragmentsIndexDir)
    /\ includes(files[sectionsFragmentsIndexDir], line)

NameAB == processString(IdPage).name
NoFiles == [q \in {} |-> <<>>]
AllDirs == mkdirSync(mkdirSync({}, sectionsDir), sectionsFragmentsDir)

\* the target directory before the first run: empty, or holding a fragment
\* edited by hand, or a barrel file with or without the export line
InitialFiles ==
    {NoFiles,
     fragmentFilePath(NameAB) :> <<"// edited by hand", "\n">>,
     sectionsFragmentsIndexDir :> <<>>,
     sectionsFragmentsIndexDir :> (<<"// ">> \o indexCode(NameAB)),
     sectionsFragmentsIndexDir :> (<<"export * from './pages';", "\n">>),
     (fragmentFilePath(NameAB) :> <<"// edited by hand", "\n">>)
        @@ (sectionsFragmentsIndexDir :> (<<"export * from './pages';", "\n">>
                                          \o indexCode(NameAB)))}

----------------------------------------------------------------------------
(* The state *)

VARIABLES
    procs,       \* the invocations of the tool that may run (one process each)
    argv,        \* the identifiers an invocation may be given
    ver,         \* the version of the schema the CMS serves
    edits,       \* how many times the schema was edited
    runs,        \* how many invocations were started
    files,       \* the files of the target directory: path -> contents
    dirs,        \* the directories of the target directory
    pc,          \* where each process is in the main function
    config,      \* config.component of each process
    tasks,       \* the pending calls of fetchComponentFields of each process
    attributes,  \* what the await of the root fetchComponentFields gave
    step,        \* which of the three files the process is creating
    codes,       \* the formatted file bodies and the barrel line
    logged,      \* whether the top-level catch logged an error
    before,      \* history: files, dirs and schema version when the run started
    issued,      \* history: number of axios.get calls of the run
    arrivals,    \* history: the responses of the run, in order of arrival
    wrote,       \* history: the paths the run appended to
    runlog,      \* history: the finished runs
    raced,       \* history: the existence checks passed while another
                 \* process was about to write the same path
    sample,      \* an identifier given to processString, in its parts
    derived      \* what processString returned for it

vars == <<procs, argv, ver, edits, runs, files, dirs, pc, config, tasks, attributes,
          step, codes, logged, before, issued, arrivals, wrote, runlog, raced,
          sample, derived>>

Procs == {1, 2}

NotDerived == [threw |-> FALSE, name |-> <<"?">>, collection |-> <<"?">>]

InitWith(ps, ids, fs) ==
    /\ procs = ps
    /\ argv = ids
    /\ ver = "v1"
    /\ edits = 0
    /\ runs = 0
    /\ files \in fs
    /\ dirs = IF files = NoFiles THEN {} ELSE AllDirs
    /\ pc = [p \in Procs |-> "idle"]
    /\ config = [p \in Procs |-> <<>>]
    /\ tasks = [p \in Procs |-> NoFiles]
    /\ attributes = [p \in Procs |-> Pending]
    /\ step = [p \in Procs |-> 1]
    /\ codes = [p \in Procs |-> NoCodes]
    /\ logged = [p \in Procs |-> FALSE]
    /\ before = [p \in Procs |-> [files |-> NoFiles, dirs |-> {}, ver |-> "v1"]]
    /\ issued = [p \in Procs |-> 0]
    /\ arrivals = [p \in Procs |-> <<>>]
    /\ wrote = [p \in Procs |-> {}]
    /\ runlog = <<>>
    /\ raced = {}

\* one invocation at a time, on any of the initial target directories
Init ==
    /\ InitWith({1}, CompArgs, InitialFiles)
    /\ sample = [ns |-> <<>>, segs |-> <<>>]
    /\ derived = NotDerived

----------------------------------------------------------------------------
(* The main function *)

\* lines 109-138: the arguments are read, the two directories are made when
\* absent, and the schema of the component is requested
Start(p) ==
    /\ p \in procs
    /\ pc[p] = "idle"
    /\ runs < MaxRuns
    /\ \E component \in argv :
        /\ config' = [config EXCEPT ![p] = component]
        /\ tasks' = [tasks EXCEPT ![p] = (<<>> :> Fetching(component))]
    /\ runs' = runs + 1
    /\ dirs' = LET made == IF sectionsDir \in dirs THEN dirs
                           ELSE mkdirSync(dirs, sectionsDir)
               IN  IF sectionsFragmentsDir \in made THEN made
                   ELSE mkdirSync(made, sectionsFragmentsDir)
    /\ pc' = [pc EXCEPT ![p] = "await"]
    /\ attributes' = [attributes EXCEPT ![p] = Pending]
    /\ step' = [step EXCEPT ![p] = 1]
    /\ codes' = [codes EXCEPT ![p] = NoCodes]
    /\ logged' = [logged EXCEPT ![p] = FALSE]
    /\ before' = [before EXCEPT ![p] = [files |-> files, dirs |-> dirs, ver |-> ver]]
    /\ issued' = [issued EXCEPT ![p] = 1]
    /\ arrivals' = [arrivals EXCEPT ![p] = <<>>]
    /\ wrote' = [wrote EXCEPT ![p] = {}]
    /\ raced' = {r \in raced : p \notin r.by}
    /\ UNCHANGED <<procs, argv, ver, edits, files, runlog, sample, derived>>

\* What follows a response in process p: the microtasks of the resolution
\* (s is their outcome) and, when they settle the root call, the main
\* function up to its next await: lines 138-150, and the catch of line 215
\* when the await, processString or attributes.join throws
Continue(p, s, path, ok) ==
    /\ tasks' = [tasks EXCEPT ![p] = s.tasks]
    /\ issued' = [issued EXCEPT
                     ![p] = @ + Cardinality((DOMAIN s.tasks) \ (DOMAIN tasks[p]))]
    /\ arrivals' = [arrivals EXCEPT ![p] = Append(@, [path |-> path, ok |-> ok])]
    /\ attributes' = [attributes EXCEPT ![p] = s.root]
    /\ IF attributes[p].kind = "pending" /\ s.root.kind # "pending"
       THEN IF \/ s.root.kind = "throw"
               \/ processString(config[p]).threw
               \/ fragmentAttributes(s.root).threw
            THEN /\ logged' = [logged EXCEPT ![p] = TRUE]
                 /\ pc' = [pc EXCEPT ![p] = "done"]
            ELSE /\ pc' = [pc EXCEPT ![p] = "format"]
                 /\ UNCHANGED logged
       ELSE UNCHANGED <<pc, logged>>
    /\ UNCHANGED <<procs, argv, ver, edits, runs, files, dirs, config, step, codes,
                   before, wrote, runlog, raced, sample, derived>>

\* the CMS answers a request with the schema of the component
FetchOk(p, path) ==
    /\ path \in DOMAIN tasks[p]
    /\ tasks[p][path].st = "fetching"
    /\ tasks[p][path].comp \in Known
    /\ \E s \in {Respond([tasks |-> tasks[p], root |-> attributes[p]], path,
                          Schema(ver, tasks[p][path].comp))} :
           Continue(p, s, path, TRUE)

\* a request fails: the network, a status that is not 2xx, or a body
\* without data.schema.attributes
FetchFail(p, path) ==
    /\ path \in DOMAIN tasks[p]
    /\ tasks[p][path].st = "fetching"
    /\ \E s \in {Fail([tasks |-> tasks[p], root |-> attributes[p]], path)} :
           Continue(p, s, path, FALSE)

\* lines 140-189: the names, the templates and their formatting
Format(p) ==
    /\ pc[p] = "format"
    /\ codes' = [codes EXCEPT ![p] =
                    Codes(processString(config[p]).name,
                          processString(config[p]).collection,
                          fragmentAttributes(attributes[p]).val)]
    /\ pc' = [pc EXCEPT ![p] = "check"]
    /\ step' = [step EXCEPT ![p] = 1]
    /\ UNCHANGED <<procs, argv, ver, edits, runs, files, dirs, config, tasks,
                   attributes, logged, before, issued, arrivals, wrote, runlog,
                   raced, sample, derived>>

\* the processes other than p that passed the check of path and have not
\* written it yet
AboutToWrite(p, path) ==
    {q \in procs \ {p} :
        \/ pc[q] = "create" /\ codes[q].path[step[q]] = path
        \/ pc[q] = "appendIndex" /\ path = sectionsFragmentsIndexDir}

Race(p, path) ==
    {[path |-> path, by |-> {p, q},
      base |-> IF existsSync(files, path) THEN files[path] ELSE <<>>] :
        q \in AboutToWrite(p, path)}

AfterFile(p) ==
    IF step[p] < Len(codes[p].path)
    THEN /\ step' = [step EXCEPT ![p] = @ + 1]
         /\ pc' = [pc EXCEPT ![p] = "check"]
    ELSE /\ pc' = [pc EXCEPT ![p] = "checkIndex"]
         /\ UNCHANGED step

\* lines 192, 196, 200: the existence check of one of the three files
CheckFile(p) ==
    /\ pc[p] = "check"
    /\ LET path == codes[p].path[step[p]]
       IN  IF ShouldCreate(files, path)
           THEN /\ pc' = [pc EXCEPT ![p] = "create"]
                /\ raced' = raced \cup Race(p, path)
                /\ UNCHANGED step
           ELSE /\ AfterFile(p)
                /\ UNCHANGED raced
    /\ UNCHANGED <<procs, argv, ver, edits, runs, files, dirs, config, tasks,
                   attributes, codes, logged, before, issued, arrivals, wrote,
                   runlog, sample, derived>>

\* lines 193, 197, 201: the file is created
CreateFile(p) ==
    /\ pc[p] = "create"
    /\ LET path == codes[p].path[step[p]]
       IN  /\ files' = appendFileSync(files, path, codes[p].code[step[p]])
           /\ wrote' = [wrote EXCEPT ![p] = @ \cup {path}]
    /\ AfterFile(p)
    /\ UNCHANGED <<procs, argv, ver, edits, runs, dirs, config, tasks, attributes,
                   codes, logged, before, issued, arrivals, runlog, raced,
                   sample, derived>>

\* lines 204-212: the barrel file is read and searched for the line
CheckIndex(p) ==
    /\ pc[p] = "checkIndex"
    /\ IF IndexHasLine(files, codes[p].indexCode)
       THEN /\ pc' = [pc EXCEPT ![p] = "done"]
            /\ UNCHANGED raced
       ELSE /\ pc' = [pc EXCEPT ![p] = "appendIndex"]
            /\ raced' = raced \cup Race(p, sectionsFragmentsIndexDir)
    /\ UNCHANGED <<procs, argv, ver, edits, runs, files, dirs, config, tasks,
                   attributes, step, codes, logged, before, issued, arrivals,
                   wrote, runlog, sample, derived>>

\* line 214: the line is appended to the barrel file
AppendIndex(p) ==
    /\ pc[p] = "appendIndex"
    /\ files' = appendFileSync(files, sectionsFragmentsIndexDir, codes[p].indexCode)
    /\ wrote' = [wrote EXCEPT ![p] = @ \cup {sectionsFragmentsIndexDir}]
    /\ pc' = [pc EXCEPT ![p] = "done"]
    /\ UNCHANGED <<procs, argv, ver, edits, runs, dirs, config, tasks, attributes,
                   step, codes, logged, before, issued, arrivals, runlog, raced,
                   sample, derived>>

\* the process ends when the main function has returned and no request is
\* pending
Exit(p) ==
    /\ pc[p] = "done"
    /\ DOMAIN tasks[p] = {}
    /\ pc' = [pc EXCEPT ![p] = "idle"]
    /\ runlog' = Append(runlog,
                        [component |-> config[p], edits |-> edits,
                         logged |-> logged[p], start |-> before[p].files,
                         end |-> files, wrote |-> wrote[p]])
    /\ UNCHANGED <<procs, argv, ver, edits, runs, files, dirs, config, tasks,
                   attributes, step, codes, logged, before, issued, arrivals,
                   wrote, raced, sample, derived>>

\* the schema is edited in the CMS while the tool is not running
EditSchema ==
    /\ \A p \in procs : pc[p] = "idle"
    /\ edits < MaxEdits
    /\ edits' = edits + 1
    /\ ver' = IF ver = "v1" THEN "v2" ELSE "v1"
    /\ UNCHANGED <<procs, argv, runs, files, dirs, pc, config, tasks, attributes,
                   step, codes, logged, before, issued, arrivals, wrote, runlog,
                   raced, sample, derived>>

Next ==
    \/ \E p \in Procs : Start(p)
    \/ \E p \in Procs : \E path \in DOMAIN tasks[p] : FetchOk(p, path)
    \/ \E p \in Procs : \E path \in DOMAIN tasks[p] : FetchFail(p, path)
    \/ \E p \in Procs : Format(p)
    \/ \E p \in Procs : CheckFile(p)
    \/ \E p \in Procs : CreateFile(p)
    \/ \E p \in Procs : CheckIndex(p)
    \/ \E p \in Procs : AppendIndex(p)
    \/ \E p \in Procs : Exit(p)
    \/ EditSchema

Spec == Init /\ [][Next]_vars

----------------------------------------------------------------------------
(* processString on its own *)

Letters == {"a", "B"}

\* the words of one to MaxWord letters
Words == UNION {[1..k -> Letters] : k \in 1..MaxWord}

\* identifiers ns.s1-...-sk in their parts: one dot, no empty segment
Samples == [ns : Words, segs : UNION {[1..k -> Words] : k \in 1..MaxSegs}]

Identifier(parts) == parts.ns \o <<".">> \o join(parts.segs, <<"-">>)

InitNames ==
    /\ InitWith({}, {}, {NoFiles})
    /\ sample \in Samples
    /\ derived = NotDerived

\* const { name, collection } = processString(config.component)
Derive ==
    /\ derived = NotDerived
    /\ sample.ns # <<>>
    /\ derived' = processString(Identifier(sample))
    /\ UNCHANGED <<procs, argv, ver, edits, runs, files, dirs, pc, config, tasks,
                   attributes, step, codes, logged, before, issued, arrivals,
                   wrote, runlog, raced, sample>>

NextNames == Derive

SpecNames == InitNames /\ [][NextNames]_vars

----------------------------------------------------------------------------
(* Progress: every request is answered, by the schema or by a failure *)

Fairness ==
    \A p \in Procs :
        WF_vars(\E path \in DOMAIN tasks[p] : FetchOk(p, path) \/ FetchFail(p, path))

\* one invocation at a time on an empty target directory
InitLive ==
    /\ InitWith({1}, CompArgs, {NoFiles})
    /\ sample = [ns |-> <<>>, segs |-> <<>>]
    /\ derived = NotDerived

LiveSpec == InitLive /\ [][Next]_vars /\ Fairness

----------------------------------------------------------------------------
(* Two invocations at the same time on the same target directory *)

InitRace ==
    /\ InitWith({1, 2}, RaceArgs, {NoFiles, sectionsFragmentsIndexDir :> <<"export * from './pages';", "\n">>})
    /\ sample = [ns |-> <<>>, segs |-> <<>>]
    /\ derived = NotDerived

SpecRace == InitRace /\ [][Next]_vars

----------------------------------------------------------------------------
(* What the history variables say about a run *)

\* the run of p received a failure for a nested component
NestedFailed(p) ==
    \E i \in 1..Len(arrivals[p]) :
        arrivals[p][i].path # <<>> /\ ~arrivals[p][i].ok

\* the run of p received a failure for the component of the command line
RootFailed(p) ==
    \E i \in 1..Len(arrivals[p]) :
        arrivals[p][i].path = <<>> /\ ~arrivals[p][i].ok

NoneFailed(p) ==
    \A i \in 1..Len(arrivals[p]) : arrivals[p][i].ok

\* the response for path arrived in the run of p before the one for other
ArrivedBefore(p, path, other) ==
    \E i, j \in 1..Len(arrivals[p]) :
        i < j /\ arrivals[p][i].path = path /\ arrivals[p][j].path = other

HasDot(str) == \E i \in 1..Len(str) : str[i] = "."

\* the selection of one field of a schema, its nested list resolved
SelectionOf(v, attribute) ==
    CASE attribute.type = "media" -> MediaSelection(attribute.field)
      [] attribute.type = "component" ->
             <<attribute.field, " {\n      ">>
             \o join(Resolved(v, attribute.component), <<"\n      ">>)
             \o <<"\n    }">>
      [] OTHER -> <<attribute.field>>

----------------------------------------------------------------------------
(* Claims *)

\* C1: whenever the resolution of the component of the command line returns,
\* it returns one selection per field of the schema, the i-th being the
\* selection of the i-th field (bare name, media block, or block wrapping the
\* nested list), in whatever order the nested responses arrived.
C1_FieldOrder ==
    \A p \in procs :
        attributes[p].kind = "list" =>
            LET schema == Schema(before[p].ver, config[p])
            IN  /\ Len(attributes[p].val) = Len(schema)
                /\ \A i \in 1..Len(schema) :
                       attributes[p].val[i] = SelectionOf(before[p].ver, schema[i])

\* the page resolved although the response for its fourth field (aside)
\* arrived before the one for its third field (hero)
C1_Witness ==
    \E p \in procs :
        /\ attributes[p].kind = "list"
        /\ config[p] = IdPage
        /\ ArrivedBefore(p, <<4>>, <<3>>)

\* C4 (as claimed): when the fetch of a nested component fails, the
\* resolution of the root does not crash and returns the selections of the
\* sibling fields.
C4_SiblingsReturned ==
    \A p \in procs :
        (NestedFailed(p) /\ ~RootFailed(p)) =>
            /\ attributes[p].kind = "list"
            /\ \E i \in 1..Len(attributes[p].val) : attributes[p].val[i] = <<"title">>

\* C8: when a nested resolution returned null, the failure reaches the top
\* level (the await of the root call throws and the catch logs it), and the
\* run writes no file: no block built from the null list is emitted.
C8_NullPropagates ==
    \A p \in procs :
        NestedFailed(p) =>
            /\ attributes[p].kind = "throw"
            /\ logged[p]
            /\ pc[p] \in {"done", "idle"}
            /\ wrote[p] = {}
            /\ files = before[p].files

\* the innermost component of the page (three levels down) failed first and
\* the run ended in the catch
C8_Witness ==
    \E p \in procs :
        /\ pc[p] = "done"
        /\ Len(arrivals[p]) > 0
        /\ \E i \in 1..Len(arrivals[p]) :
               /\ Len(arrivals[p][i].path) = 3
               /\ ~arrivals[p][i].ok
               /\ \A j \in 1..(i - 1) : arrivals[p][j].ok
        /\ attributes[p].kind = "throw"

\* C10: a run whose root fetch failed, or whose identifier has no dot, ends
\* in the top-level catch with the error logged; it creates none of the
\* three files and leaves the barrel file as it was: its only effect on the
\* target directory is the two directories made before the fetch.
C10_FatalRunWritesNothing ==
    \A p \in procs :
        /\ (pc[p] # "idle" /\ (RootFailed(p) \/ ~HasDot(config[p]))) =>
               /\ files = before[p].files
               /\ wrote[p] = {}
               /\ dirs = before[p].dirs \cup AllDirs
               /\ pc[p] \in {"await", "done"}
        /\ (pc[p] = "done" /\ (RootFailed(p) \/ ~HasDot(config[p]))) => logged[p]

\* the root fetch of an identifier with a dot failed in an empty target
\* directory, and the run is over
C10_Witness ==
    \E p \in procs :
        /\ pc[p] = "done"
        /\ RootFailed(p)
        /\ HasDot(config[p])
        /\ before[p].dirs = {}
        /\ dirs = AllDirs

\* the contents of the barrel file, empty when the file is absent
Barrel(fs) ==
    IF existsSync(fs, sectionsFragmentsIndexDir)
    THEN fs[sectionsFragmentsIndexDir] ELSE <<>>

\* C2: two runs in sequence with the same identifier and an unchanged
\* schema, the first in an empty target directory and successful: after the
\* second run the directory holds the same three files and barrel file with
\* the same contents as after the first, the second run wrote nothing, and
\* the barrel file holds the export line once.
C2_SecondRunNoOp ==
    (/\ Len(runlog) >= 2
     /\ runlog[1].start = NoFiles
     /\ ~runlog[1].logged
     /\ runlog[2].component = runlog[1].component
     /\ runlog[2].edits = runlog[1].edits) =>
        LET name == processString(runlog[1].component).name
        IN  /\ runlog[2].end = runlog[1].end
            /\ runlog[2].wrote = {}
            /\ DOMAIN runlog[2].end =
                   {fragmentFilePath(name), componentFilePath(name),
                    componentTypesFilePath(name), sectionsFragmentsIndexDir}
            /\ Occurrences(Barrel(runlog[2].end), indexCode(name)) = 1

\* two successful runs for the page on an empty directory
C2_Witness ==
    /\ Len(runlog) >= 2
    /\ runlog[1].start = NoFiles
    /\ ~runlog[1].logged
    /\ ~runlog[2].logged
    /\ runlog[1].component = IdPage
    /\ runlog[2].component = IdPage
    /\ runlog[2].edits = runlog[1].edits

\* C3: a file that exists at the path of one of the three artifacts when the
\* run reaches its creation step has, from then on, the contents it had
\* before the run, whatever the run resolved.
C3_ExistingFileUntouched ==
    \A p \in procs :
        \A k \in 1..Len(codes[p].path) :
            existsSync(before[p].files, codes[p].path[k]) =>
                /\ existsSync(files, codes[p].path[k])
                /\ files[codes[p].path[k]] = before[p].files[codes[p].path[k]]
                /\ codes[p].path[k] \notin wrote[p]

\* a second run finished without error after the schema was edited: the
\* fragment of the first run is still there, and differs from the fragment
\* the second run resolved
C3_Witness ==
    \E p \in procs :
        /\ pc[p] = "done"
        /\ ~logged[p]
        /\ Len(runlog) = 1
        /\ codes[p].path[1] \in runlog[1].wrote
        /\ runlog[1].edits # edits
        /\ files[codes[p].path[1]] # codes[p].code[1]

\* what a run that went through the barrel step did to the barrel file
BarrelOutcome ==
    \A p \in procs :
        (pc[p] = "done" /\ ~logged[p]) =>
            LET line == codes[p].indexCode
                was == Barrel(before[p].files)
            IN  IF /\ existsSync(before[p].files, sectionsFragmentsIndexDir)
                   /\ includes(was, line)
                THEN /\ Barrel(files) = was
                     /\ sectionsFragmentsIndexDir \notin wrote[p]
                ELSE /\ Barrel(files) = was \o line
                     /\ sectionsFragmentsIndexDir \in wrote[p]

\* every step keeps the barrel file and what it held, at its start
BarrelKept ==
    existsSync(files, sectionsFragmentsIndexDir) =>
        /\ existsSync(files', sectionsFragmentsIndexDir)
        /\ IsPrefix(files[sectionsFragmentsIndexDir], files'[sectionsFragmentsIndexDir])

\* C7: the barrel file is append-only over any sequence of runs: a run that
\* reaches the barrel step appends the export line exactly when the line
\* does not occur in the file (or the file is absent), and every step leaves
\* the former contents as a prefix of the new ones.
C7_BarrelAppendOnly == [](BarrelOutcome) /\ [][BarrelKept]_vars

\* a run appended its line to a barrel file that held other lines
C7_Witness ==
    \E p \in procs :
        /\ pc[p] = "done"
        /\ ~logged[p]
        /\ Barrel(before[p].files) # <<>>
        /\ Barrel(files) = Barrel(before[p].files) \o codes[p].indexCode

\* the first character of the word in upper case
Cap(word) == <<toUpperCase(word[1])>> \o SubSeq(word, 2, Len(word))

\* C5: for an identifier ns.s1-...-sk processString returns the name
\* Cap(s1)..Cap(sk) and the collection Component Cap(ns) Cap(s1)..Cap(sk):
\* the collection begins with Component and the name has nothing of ns.
C5_Names ==
    derived # NotDerived =>
        LET caps == Concat([i \in 1..Len(sample.segs) |-> Cap(sample.segs[i])])
        IN  /\ ~derived.threw
            /\ derived.name = caps
            /\ derived.collection =
                   <<"C", "o", "m", "p", "o", "n", "e", "n", "t">>
                   \o Cap(sample.ns) \o caps
            /\ IsPrefix(<<"C", "o", "m", "p", "o", "n", "e", "n", "t">>,
                        derived.collection)

\* the names of an identifier with two segments of two letters were derived
C5_Witness ==
    /\ derived # NotDerived
    /\ Len(sample.segs) = 2
    /\ Len(sample.ns) = 2
    /\ \A i \in 1..2 : Len(sample.segs[i]) = 2

\* a run that left the await with no failed fetch holds the selection tree
\* of the schema and issued one request for the root and one per component
\* field occurrence, all answered
ResolvedWhenNoFetchFails ==
    \A p \in procs :
        (pc[p] \notin {"idle", "await"} /\ NoneFailed(p)) =>
            /\ attributes[p] = List(Resolved(before[p].ver, config[p]))
            /\ issued[p] = 1 + ComponentFieldCount(before[p].ver, config[p])
            /\ Len(arrivals[p]) = issued[p]
            /\ DOMAIN tasks[p] = {}

\* C6: on the acyclic schema, when every fetch succeeds, the recursive
\* resolution ends with the selection tree that mirrors the nesting of the
\* schema (three levels below the page), after one fetch per component
\* field occurrence; and every run leaves the await of the resolution.
C6_Terminates ==
    /\ [](ResolvedWhenNoFetchFails)
    /\ \A p \in Procs : (pc[p] = "await") ~> (pc[p] # "await")

\* the page was resolved with no failure: five requests, three levels
C6_Witness ==
    \E p \in procs :
        /\ pc[p] = "format"
        /\ config[p] = IdPage
        /\ NoneFailed(p)
        /\ issued[p] = 5
        /\ \E i \in 1..Len(arrivals[p]) : Len(arrivals[p][i].path) = 3

\* what process p appends to path
Data(p, path) ==
    IF path = sectionsFragmentsIndexDir THEN codes[p].indexCode
    ELSE codes[p].code[CHOOSE k \in 1..Len(codes[p].path) : codes[p].path[k] = path]

\* the races between two invocations with the same identifier in which both
\* have written
RacesWritten ==
    {r \in raced :
        /\ \A x \in r.by : r.path \in wrote[x]
        /\ \A x, y \in r.by : config[x] = config[y]}

\* C9 (as claimed): when both invocations passed the check of a path before
\* either wrote it, the path holds what the last writer wrote and nothing
\* of the other writer.
C9_LastWriteWins ==
    \A r \in RacesWritten :
        \E x \in r.by : files[r.path] = r.base \o Data(x, r.path)

\* C9 (amended): when both invocations passed the check of a path before
\* either wrote it, both writes are appended: the path holds what it held,
\* then what the first writer wrote, then what the second wrote (the file
\* body twice, the export line twice).
C9_BothAppended ==
    \A r \in RacesWritten :
        \E x, y \in r.by :
            /\ x # y
            /\ files[r.path] = r.base \o Data(x, r.path) \o Data(y, r.path)

\* both invocations raced on the fragment file and on the barrel file, and
\* both wrote them
C9_Witness ==
    \E r1, r2 \in RacesWritten :
        /\ r1.path = sectionsFragmentsIndexDir
        /\ r2.path = fragmentFilePath(processString(IdLeaf).name)
        /\ r1.by = r2.by

====
